---- MODULE Spec2Model ----
(***************************************************************************)
(* Model of src/src/downloader/main.py: one run of main(), from the point  *)
(* where parse_arguments() and load_config() have returned, through        *)
(* get_video_info, select_quality and download_video, to main's return.    *)
(*                                                                         *)
(* Strings are sequences of one-character strings, so that lower(),        *)
(* strip(), the `in` substring test, int() and the f-strings are computed  *)
(* rather than assumed.  An absent (None) string and "" are both the empty *)
(* sequence: the code only ever tests them for truthiness.  A stream       *)
(* height of 0 stands for an absent height (None): both are falsy at       *)
(* main.py:54.                                                             *)
(***************************************************************************)
EXTENDS Integers, Sequences, FiniteSets, TLC

VARIABLES
    pc,           \* position of main: "main", "get_video_info", "select_quality", "sq_loop", "download_video", "done"
    argUrl,       \* args.url
    quality,      \* args.quality
    url,          \* main's local url
    urlEvent,     \* what the top-level input() at line 163 delivered
    hasFfmpeg,    \* has_ffmpeg inside get_video_info
    streams,      \* info["formats"] as delivered by extract_info
    formats,      \* video_info["formats"]
    format_id,    \* main's local format_id (<<>> while unassigned)
    prompts,      \* number of input() calls made by select_quality's loop
    lastInput,    \* what the latest input() of that loop delivered
    dvArg,        \* the format_id argument download_video was called with
    fetchOutcome, \* what ydl.download did inside download_video
    success,      \* main's local success: "unset", "True", "False"
    exc,          \* the exception that reached main's handlers ("none" if none)
    status,       \* main's return value (-1 while main is running)
    calls,        \* the functions main has called, in order
    returns       \* the functions that returned normally to main, in order

vars ==
    <<pc, argUrl, quality, url, urlEvent, hasFfmpeg, streams, formats, format_id,
      prompts, lastInput, dvArg, fetchOutcome, success, exc, status, calls, returns>>

(***************************************************************************)
(* Bounds                                                                  *)
(***************************************************************************)
MaxStreams ==
    3

MaxPrompts ==
    2

MaxLen ==
    2

(***************************************************************************)
(* Strings                                                                 *)
(***************************************************************************)
Digits ==
    <<"0", "1", "2", "3", "4", "5", "6", "7", "8", "9">>

UpperLetters ==
    <<"A", "B", "C", "D", "E", "F", "G", "H", "I", "J", "K", "L", "M",
      "N", "O", "P", "Q", "R", "S", "T", "U", "V", "W", "X", "Y", "Z">>

LowerLetters ==
    <<"a", "b", "c", "d", "e", "f", "g", "h", "i", "j", "k", "l", "m",
      "n", "o", "p", "q", "r", "s", "t", "u", "v", "w", "x", "y", "z">>

IsDigit(c) ==
    \E i \in 1..Len(Digits) : Digits[i] = c

DigitVal(c) ==
    (CHOOSE i \in 1..Len(Digits) : Digits[i] = c) - 1

LowerChar(c) ==
    IF \E i \in 1..Len(UpperLetters) : UpperLetters[i] = c
    THEN LowerLetters[CHOOSE i \in 1..Len(UpperLetters) : UpperLetters[i] = c]
    ELSE c

\* str.lower()
Lower(s) ==
    [i \in 1..Len(s) |-> LowerChar(s[i])]

\* the `in` operator on two strings
Contains(sub, s) ==
    \E i \in 0..(Len(s) - Len(sub)) : SubSeq(s, i + 1, i + Len(sub)) = sub

IsSpace(c) ==
    c = " "

RECURSIVE LStrip(_)
LStrip(s) ==
    IF s # <<>> /\ IsSpace(s[1]) THEN LStrip(Tail(s)) ELSE s

RECURSIVE RStrip(_)
RStrip(s) ==
    IF s # <<>> /\ IsSpace(s[Len(s)]) THEN RStrip(SubSeq(s, 1, Len(s) - 1)) ELSE s

\* str.strip()
Strip(s) ==
    RStrip(LStrip(s))

\* str(n) / f"{n}" for an integer
RECURSIVE NatStr(_)
NatStr(n) ==
    IF n < 10 THEN <<Digits[n + 1]>> ELSE NatStr(n \div 10) \o <<Digits[(n % 10) + 1]>>

IntStr(n) ==
    IF n < 0 THEN <<"-">> \o NatStr(0 - n) ELSE NatStr(n)

RECURSIVE DigitsValue(_)
DigitsValue(ds) ==
    IF ds = <<>> THEN 0
    ELSE 10 * DigitsValue(SubSeq(ds, 1, Len(ds) - 1)) + DigitVal(ds[Len(ds)])

\* int(s): surrounding whitespace, an optional sign, digits with single
\* underscores between them; anything else raises ValueError (ok = FALSE)
ParseInt(s) ==
    LET t      == Strip(s)
        signed == t # <<>> /\ t[1] \in {"+", "-"}
        body   == IF signed THEN Tail(t) ELSE t
        wellFormed ==
            /\ body # <<>>
            /\ \A i \in 1..Len(body) : IsDigit(body[i]) \/ body[i] = "_"
            /\ body[1] # "_"
            /\ body[Len(body)] # "_"
            /\ \A i \in 1..(Len(body) - 1) : ~(body[i] = "_" /\ body[i + 1] = "_")
        mag    == DigitsValue(SelectSeq(body, IsDigit))
    IN  IF wellFormed
        THEN [ok |-> TRUE, val |-> IF signed /\ t[1] = "-" THEN 0 - mag ELSE mag]
        ELSE [ok |-> FALSE, val |-> 0]

(***************************************************************************)
(* Exceptions                                                              *)
(***************************************************************************)
\* isinstance(e, Exception): KeyboardInterrupt derives from BaseException only
IsException(e) ==
    e \in {"ValueError", "EOFError", "OSError", "DownloadError"}

\* main's handlers, lines 179-184
MainHandler(e) ==
    IF e = "KeyboardInterrupt" THEN 130 ELSE 1

\* line 177
MainReturnZero(ok) ==
    0

MainReturn(ok) ==
    IF ok THEN 0 ELSE 1

(***************************************************************************)
(* get_video_info, lines 36-83                                             *)
(***************************************************************************)
\* the streams extract_info may report: vcodec "none" is an audio-only stream
VCodecs ==
    {"none", "avc1", "vp9"}

StreamHeights ==
    {0, 360, 720}

StreamUniverse ==
    [vcodec : VCodecs, height : StreamHeights]

\* line 54: f.get("vcodec") != "none" and f.get("height")
HasVideoNoCodecTest(f) ==
    f.height # 0

HasVideo(f) ==
    f.vcodec # "none" /\ f.height # 0

\* lines 52-55
Heights(fs) ==
    {f.height : f \in {g \in fs : HasVideo(g)}}

SetMax(hs) ==
    CHOOSE m \in hs : \A h \in hs : h <= m

\* line 59: sorted(heights, reverse=True)
RECURSIVE SortedReverse(_)
SortedReverse(hs) ==
    IF hs = {} THEN <<>>
    ELSE LET m == SetMax(hs) IN <<m>> \o SortedReverse(hs \ {m})

\* lines 60-63
HeightFormatId(h, ff) ==
    IF ff
    THEN <<"bestvideo[height<=">> \o IntStr(h) \o <<"]+bestaudio/best[height<=">> \o IntStr(h) \o <<"]">>
    ELSE <<"best[height<=">> \o IntStr(h) \o <<"]">>

\* line 67: f"{height}p"
HeightLabel(h) ==
    IntStr(h) \o <<"p">>

\* lines 65-69
HeightEntry(h, ff) ==
    [format_id |-> HeightFormatId(h, ff), resolution |-> HeightLabel(h), height |-> h]

\* line 74
BestFormatId(ff) ==
    IF ff THEN <<"bestvideo+bestaudio/best">> ELSE <<"best">>

\* line 77: f"best ({best_height}p)"
BestLabel(h) ==
    <<"b", "e", "s", "t", " ", "(">> \o IntStr(h) \o <<"p", ")">>

\* line 78
BestHeightSame(h) ==
    h

BestHeight(h) ==
    h + 1

\* lines 75-79
BestEntry(h, ff) ==
    [format_id |-> BestFormatId(ff), resolution |-> BestLabel(h), height |-> BestHeight(h)]

\* lines 51-81: the "formats" value of the returned dict
MakeFormats(fs, ff) ==
    LET hs   == SortedReverse(Heights(fs))
        base == [i \in 1..Len(hs) |-> HeightEntry(hs[i], ff)]
    IN  IF base # <<>> THEN <<BestEntry(base[1].height, ff)>> \o base ELSE base

\* line 82: `except Exception`
GviCatches(e) ==
    IsException(e)

(***************************************************************************)
(* select_quality, lines 86-118                                            *)
(***************************************************************************)
\* line 88: `not formats`
FormatsEmptyNever(fs) ==
    FALSE

FormatsEmpty(fs) ==
    fs = <<>>

\* line 94
LabelMatchesCaseSensitive(q, label) ==
    Contains(q, Lower(label))

LabelMatches(q, label) ==
    Contains(Lower(q), Lower(label))

\* lines 95, 99, 114: fmt["format_id"]
PickLabel(fmt) ==
    fmt.resolution

Pick(fmt) ==
    fmt.format_id

\* line 97
ArgIndexSame(n) ==
    n

ArgIndex(n) ==
    n - 1

\* line 112
ChoiceIndex(n) ==
    n - 1

\* lines 98, 113: 0 <= index < len(formats)
InRange(index, fs) ==
    0 <= index /\ index < Len(fs)

\* lines 92-101: <<id>> when the selector resolves, <<>> when it falls through
SelectFromArg(fs, q) ==
    IF q = <<>> THEN <<>>
    ELSE IF \E i \in 1..Len(fs) : LabelMatches(q, fs[i].resolution)
    THEN LET i == CHOOSE j \in 1..Len(fs) :
                      /\ LabelMatches(q, fs[j].resolution)
                      /\ \A k \in 1..(j - 1) : ~LabelMatches(q, fs[k].resolution)
         IN  <<Pick(fs[i])>>
    ELSE LET n == ParseInt(q)
         IN  IF n.ok /\ InRange(ArgIndex(n.val), fs)
             THEN <<Pick(fs[ArgIndex(n.val) + 1])>>
             ELSE <<>>

\* line 116: `except (ValueError, KeyboardInterrupt)`
LoopCatchesValueErrorOnly(e) ==
    e = "ValueError"

LoopCatches(e) ==
    e \in {"ValueError", "KeyboardInterrupt"}

(***************************************************************************)
(* download_video, lines 132-151                                           *)
(***************************************************************************)
\* line 149: `except Exception`
DownloadCatchesNothing(e) ==
    FALSE

DownloadCatches(e) ==
    IsException(e)

(***************************************************************************)
(* main, lines 154-184                                                     *)
(***************************************************************************)
\* line 165: `not url`
UrlMissingNever(u) ==
    FALSE

UrlMissing(u) ==
    u = <<>>

(***************************************************************************)
(* What the environment may deliver                                        *)
(***************************************************************************)
Text(t) ==
    [kind |-> "text", text |-> t]

Raised(e) ==
    [kind |-> e, text |-> <<>>]

NoEvent ==
    [kind |-> "none", text |-> <<>>]

\* input() returns a line, or raises KeyboardInterrupt (Ctrl-C) or EOFError (end of input)
InputRaises ==
    {Raised("KeyboardInterrupt"), Raised("EOFError")}

UrlFlags ==
    {<<>>, <<"u">>}

UrlEvents ==
    {Text(<<>>), Text(<<" ">>), Text(<<"u">>), Text(<<" ", "u", " ">>)} \cup InputRaises

Qualities ==
    {<<>>, <<"7", "2", "0", "p">>, <<"B", "E", "S", "T">>, <<"7", "2", "0">>,
     <<"1">>, <<"2">>, <<"5">>, <<"-", "1">>, <<"x">>}

LoopEvents ==
    {Text(<<"1">>), Text(<<" ", "2">>), Text(<<"3">>), Text(<<"9">>), Text(<<"x">>)}
        \cup InputRaises

StreamSets ==
    {fs \in SUBSET StreamUniverse : Cardinality(fs) <= MaxStreams}

\* what extract_info / ydl.download may do
CollaboratorRaises ==
    {"DownloadError", "KeyboardInterrupt"}

(***************************************************************************)
(* The run of main                                                         *)
(***************************************************************************)
Init ==
    /\ pc = "main"
    /\ argUrl \in UrlFlags
    /\ quality \in Qualities
    /\ url = argUrl
    /\ urlEvent = NoEvent
    /\ hasFfmpeg = FALSE
    /\ streams = {}
    /\ formats = <<>>
    /\ format_id = <<>>
    /\ prompts = 0
    /\ lastInput = NoEvent
    /\ dvArg = <<>>
    /\ fetchOutcome = "none"
    /\ success = "unset"
    /\ exc = "none"
    /\ status = -1
    /\ calls = <<>>
    /\ returns = <<>>

\* an exception e reaches main's handlers, lines 179-184
Unwind(e) ==
    /\ exc' = e
    /\ status' = MainHandler(e)
    /\ pc' = "done"

\* lines 161-167
MainUrl ==
    /\ pc = "main"
    /\ IF url # <<>>
       THEN /\ pc' = "get_video_info"
            /\ UNCHANGED <<url, urlEvent, exc, status>>
       ELSE \E ev \in UrlEvents :
            /\ urlEvent' = ev
            /\ IF ev.kind = "text"
               THEN /\ url' = Strip(ev.text)
                    /\ exc' = exc
                    /\ IF UrlMissing(url')
                       THEN status' = 1 /\ pc' = "done"
                       ELSE status' = status /\ pc' = "get_video_info"
               ELSE /\ url' = url
                    /\ Unwind(ev.kind)
    /\ UNCHANGED <<argUrl, quality, hasFfmpeg, streams, formats, format_id, prompts,
                   lastInput, dvArg, fetchOutcome, success, calls, returns>>

\* line 170 and get_video_info, lines 36-83
GetVideoInfo ==
    /\ pc = "get_video_info"
    /\ calls' = Append(calls, "get_video_info")
    /\ \E ff \in BOOLEAN :
        /\ hasFfmpeg' = ff
        /\ \/ \E fs \in StreamSets :
                /\ streams' = fs
                /\ formats' = MakeFormats(fs, ff)
                /\ returns' = Append(returns, "get_video_info")
                /\ pc' = "select_quality"
                /\ UNCHANGED <<exc, status>>
           \/ \E e \in CollaboratorRaises :
                /\ Unwind(IF GviCatches(e) THEN "ValueError" ELSE e)
                /\ UNCHANGED <<streams, formats, returns>>
    /\ UNCHANGED <<argUrl, quality, url, urlEvent, format_id, prompts, lastInput,
                   dvArg, fetchOutcome, success>>

\* line 174 and select_quality, lines 86-102
SelectQuality ==
    /\ pc = "select_quality"
    /\ calls' = Append(calls, "select_quality")
    /\ IF FormatsEmpty(formats)
       THEN /\ Unwind("ValueError")
            /\ UNCHANGED <<format_id, returns>>
       ELSE LET r == SelectFromArg(formats, quality)
            IN  IF r # <<>>
                THEN /\ format_id' = r[1]
                     /\ returns' = Append(returns, "select_quality")
                     /\ pc' = "download_video"
                     /\ UNCHANGED <<exc, status>>
                ELSE /\ pc' = "sq_loop"
                     /\ UNCHANGED <<format_id, returns, exc, status>>
    /\ UNCHANGED <<argUrl, quality, url, urlEvent, hasFfmpeg, streams, formats, prompts,
                   lastInput, dvArg, fetchOutcome, success>>

\* what the try body of lines 110-115 raises on event ev ("none": nothing)
LoopRaises(ev) ==
    IF ev.kind # "text" THEN ev.kind
    ELSE IF ParseInt(Strip(ev.text)).ok THEN "none" ELSE "ValueError"

\* one turn of the interactive loop, lines 109-118
SqInput ==
    /\ pc = "sq_loop"
    /\ prompts < MaxPrompts
    /\ \E ev \in LoopEvents :
        /\ lastInput' = ev
        /\ prompts' = prompts + 1
        /\ LET e     == LoopRaises(ev)
               index == ChoiceIndex(ParseInt(Strip(ev.text)).val)
           IN  IF e = "none"
               THEN IF InRange(index, formats)
                    THEN /\ format_id' = Pick(formats[index + 1])
                         /\ returns' = Append(returns, "select_quality")
                         /\ pc' = "download_video"
                         /\ UNCHANGED <<exc, status>>
                    ELSE UNCHANGED <<pc, format_id, returns, exc, status>>
               ELSE IF LoopCatches(e)
                    THEN UNCHANGED <<pc, format_id, returns, exc, status>>
                    ELSE /\ Unwind(e)
                         /\ UNCHANGED <<format_id, returns>>
    /\ UNCHANGED <<argUrl, quality, url, urlEvent, hasFfmpeg, streams, formats, dvArg,
                   fetchOutcome, success, calls>>

\* lines 175-177 and download_video, lines 132-151
DownloadVideo ==
    /\ pc = "download_video"
    /\ calls' = Append(calls, "download_video")
    /\ dvArg' = format_id
    /\ \/ \* os.makedirs (line 134, outside the try) raises
          /\ Unwind("OSError")
          /\ UNCHANGED <<fetchOutcome, success, returns>>
       \/ \* ydl.download returns
          /\ fetchOutcome' = "ok"
          /\ success' = "True"
          /\ returns' = Append(returns, "download_video")
          /\ status' = MainReturn(TRUE)
          /\ pc' = "done"
          /\ exc' = exc
       \/ \* ydl.download raises
          \E e \in CollaboratorRaises :
            /\ fetchOutcome' = e
            /\ IF DownloadCatches(e)
               THEN /\ success' = "False"
                    /\ returns' = Append(returns, "download_video")
                    /\ status' = MainReturn(FALSE)
                    /\ pc' = "done"
                    /\ exc' = exc
               ELSE /\ Unwind(e)
                    /\ UNCHANGED <<success, returns>>
    /\ UNCHANGED <<argUrl, quality, url, urlEvent, hasFfmpeg, streams, formats, format_id,
                   prompts, lastInput>>

Next ==
    \/ MainUrl
    \/ GetVideoInfo
    \/ SelectQuality
    \/ SqInput
    \/ DownloadVideo

Spec ==
    Init /\ [][Next]_vars

(***************************************************************************)
(* select_quality called on its own, with any list a caller may pass       *)
(***************************************************************************)
SelEntries ==
    {[format_id |-> <<"a">>, resolution |-> <<"H", "D", " ", "7", "2", "0">>, height |-> 720],
     [format_id |-> <<"b">>, resolution |-> <<"7", "2", "0", "p">>, height |-> 720],
     [format_id |-> <<"c">>, resolution |-> <<"1", "0", "8", "0", "P">>, height |-> 1080],
     [format_id |-> <<"d">>, resolution |-> <<"s", "d">>, height |-> 480]}

SelLists ==
    UNION {[1..n -> SelEntries] : n \in 0..MaxLen}

SelQualities ==
    {<<>>, <<"h", "d">>, <<"H", "D">>, <<"7", "2", "0">>, <<"0", "P">>, <<"S", "d">>,
     <<"1">>, <<"2">>, <<"3">>, <<"x">>}

SelInit ==
    /\ pc = "select_quality"
    /\ argUrl = <<"u">>
    /\ quality \in SelQualities
    /\ url = argUrl
    /\ urlEvent = NoEvent
    /\ hasFfmpeg = FALSE
    /\ streams = {}
    /\ formats \in SelLists
    /\ format_id = <<>>
    /\ prompts = 0
    /\ lastInput = NoEvent
    /\ dvArg = <<>>
    /\ fetchOutcome = "none"
    /\ success = "unset"
    /\ exc = "none"
    /\ status = -1
    /\ calls = <<"get_video_info">>
    /\ returns = <<"get_video_info">>

SelNext ==
    \/ SelectQuality
    \/ SqInput

SelSpec ==
    SelInit /\ [][SelNext]_vars

(***************************************************************************)
(* Properties                                                              *)
(***************************************************************************)
\* select_quality has been called / has returned its format_id to main
SqCalled ==
    Len(calls) >= 2

SqReturned ==
    Len(returns) >= 2

\* select_quality returned from the selector string, without prompting
Direct ==
    SqReturned /\ prompts = 0 /\ lastInput = NoEvent

\* a is a case-insensitive substring of b
SubstringIgnoringCase(a, b) ==
    \E i \in 0..(Len(b) - Len(a)) :
        \A j \in 1..Len(a) : LowerChar(a[j]) = LowerChar(b[i + j])

SomeLabelHas(q) ==
    \E i \in 1..Len(formats) : SubstringIgnoringCase(q, formats[i].resolution)

FirstLabelWith(q) ==
    CHOOSE i \in 1..Len(formats) :
        /\ SubstringIgnoringCase(q, formats[i].resolution)
        /\ \A j \in 1..(i - 1) : ~SubstringIgnoringCase(q, formats[j].resolution)

C2_LabelSelection ==
    (SqCalled /\ formats # <<>> /\ quality # <<>> /\ SomeLabelHas(quality)) =>
        /\ Direct
        /\ pc = "download_video"
        /\ format_id = formats[FirstLabelWith(quality)].format_id

C2_Witness ==
    /\ Direct
    /\ quality = <<"S", "d">>
    /\ Len(formats) = 2
    /\ format_id = formats[2].format_id
    /\ format_id # formats[1].format_id

\* the integers whose decimal strings the selectors may be
KRange ==
    (0 - 9)..999

DecimalStrings ==
    [k \in KRange |-> IntStr(k)]

IsDecimalOf(q, k) ==
    q = DecimalStrings[k]

\* C3 as stated: a selector that is the decimal string of k returns entry
\* k-1 (0-based) when 1 <= k <= N, and falls through to the prompt otherwise.
C3_IndexSelectionAsStated ==
    (SqCalled /\ formats # <<>>) =>
        \A k \in KRange :
            IsDecimalOf(quality, k) =>
                IF 1 <= k /\ k <= Len(formats)
                THEN Direct /\ format_id = formats[k].format_id
                ELSE ~Direct

\* C3 amended: the same, for a selector that is not a case-insensitive
\* substring of any label (the label match of line 94 comes first).
C3_IndexSelection ==
    (SqCalled /\ formats # <<>> /\ ~SomeLabelHas(quality)) =>
        \A k \in KRange :
            IsDecimalOf(quality, k) =>
                IF 1 <= k /\ k <= Len(formats)
                THEN Direct /\ format_id = formats[k].format_id
                ELSE ~Direct

C3_Witness ==
    /\ quality = <<"1">>
    /\ Len(formats) = 3
    /\ ~SomeLabelHas(quality)
    /\ Direct
    /\ format_id = formats[1].format_id

\* the event is a line holding an integer in [1, N]
ValidChoice(ev, fs) ==
    /\ ev.kind = "text"
    /\ ParseInt(ev.text).ok
    /\ ParseInt(ev.text).val \in 1..Len(fs)

\* C4 as stated: a KeyboardInterrupt at the loop's input() leaves the run in
\* the loop, with no status; the loop is left only by a valid choice.
C4_LoopAsStated ==
    [][pc = "sq_loop" =>
        /\ lastInput'.kind = "KeyboardInterrupt" => pc' = "sq_loop" /\ status' = -1
        /\ pc' # "sq_loop" => ValidChoice(lastInput', formats) /\ pc' = "download_video"]_vars

\* C4 amended: the loop is left only by a valid choice or by input()
\* raising EOFError at end of input, which select_quality does not catch
\* and which ends the run with status 1.
C4_Loop ==
    [][pc = "sq_loop" =>
        /\ lastInput'.kind = "KeyboardInterrupt" =>
              pc' = "sq_loop" /\ status' = -1 /\ exc' = "none" /\ returns' = returns
        /\ pc' # "sq_loop" =>
              \/ ValidChoice(lastInput', formats) /\ pc' = "download_video"
              \/ lastInput'.kind = "EOFError" /\ pc' = "done" /\ status' = 1]_vars

C4_Witness ==
    /\ pc = "sq_loop"
    /\ lastInput.kind = "KeyboardInterrupt"
    /\ prompts >= 1
    /\ status = -1

\* C5: when ydl.download raises an Exception, download_video returns False
\* (nothing reaches main's handlers) and main returns 1.
C5_DownloadErrorContained ==
    fetchOutcome = "DownloadError" =>
        /\ success = "False"
        /\ exc = "none"
        /\ returns = <<"get_video_info", "select_quality", "download_video">>
        /\ pc = "done"
        /\ status = 1

C5_Witness ==
    /\ fetchOutcome = "DownloadError"
    /\ pc = "done"
    /\ status = 1

GviReturned ==
    Len(returns) >= 1

StartsWithBest(label) ==
    Len(label) >= 4 /\ SubSeq(label, 1, 4) = <<"b", "e", "s", "t">>

\* C6: the list get_video_info returns is in non-increasing height order;
\* when non-empty its first entry is the synthetic "best" entry, labelled
\* "best..." and strictly higher than the second entry.
C6_Order ==
    GviReturned =>
        /\ \A i \in 1..(Len(formats) - 1) : formats[i].height >= formats[i + 1].height
        /\ formats # <<>> =>
            /\ Len(formats) >= 2
            /\ formats[1].format_id \in {<<"bestvideo+bestaudio/best">>, <<"best">>}
            /\ StartsWithBest(formats[1].resolution)
            /\ formats[1].height > formats[2].height

C6_Witness ==
    /\ GviReturned
    /\ Len(formats) = 3

\* C7: apart from the "best" entry, the list has exactly one entry per
\* distinct height found on a stream with a video component, and none for
\* a height found only on audio-only streams.
C7_OnePerVideoHeight ==
    GviReturned =>
        /\ \A h \in StreamHeights \ {0} :
            Cardinality({i \in 2..Len(formats) : formats[i].height = h})
                = IF \E f \in streams : f.vcodec # "none" /\ f.height = h THEN 1 ELSE 0
        /\ \A i \in 2..Len(formats) : formats[i].height \in StreamHeights \ {0}

C7_Witness ==
    /\ GviReturned
    /\ streams = {[vcodec |-> "avc1", height |-> 720], [vcodec |-> "vp9", height |-> 720],
                  [vcodec |-> "none", height |-> 360]}
    /\ Len(formats) = 2

\* C8: with no URL flag and an empty answer to the URL prompt, main returns
\* 1 and calls none of get_video_info, select_quality, download_video.
C8_EmptyUrl ==
    (argUrl = <<>> /\ urlEvent = Text(<<>>)) =>
        /\ pc = "done"
        /\ status = 1
        /\ exc = "none"
        /\ calls = <<>>

C8_Witness ==
    /\ argUrl = <<>>
    /\ urlEvent = Text(<<>>)
    /\ pc = "done"

\* C9: select_quality on an empty list raises at once, whatever the
\* selector: no prompt, no selection, main returns 1 and download_video is
\* not called.
C9_EmptyFormats ==
    (SqCalled /\ formats = <<>>) =>
        /\ pc = "done"
        /\ exc = "ValueError"
        /\ status = 1
        /\ prompts = 0
        /\ lastInput = NoEvent
        /\ format_id = <<>>
        /\ calls = <<"get_video_info", "select_quality">>

C9_Witness ==
    /\ SqCalled
    /\ formats = <<>>
    /\ quality = <<"1">>
    /\ pc = "done"

IsPrefix(a, b) ==
    Len(a) <= Len(b) /\ SubSeq(b, 1, Len(a)) = a

\* C10: the three functions are called at most once each, in order, each
\* after the previous one returned normally; download_video receives the
\* format_id select_quality returned, which belongs to an entry of the list.
C10_Pipeline ==
    /\ IsPrefix(calls, <<"get_video_info", "select_quality", "download_video">>)
    /\ IsPrefix(returns, calls)
    /\ Len(calls) <= Len(returns) + 1
    /\ SqReturned => \E i \in 1..Len(formats) : formats[i].format_id = format_id
    /\ Len(calls) = 3 => dvArg = format_id
    /\ Len(calls) < 3 => dvArg = <<>>

C10_Witness ==
    /\ Len(calls) = 3
    /\ dvArg = format_id
    /\ dvArg # <<>>
    /\ prompts > 0

====
